---- MODULE Spec2Model ----
(***************************************************************************)
(* Budget-aware progressive training of flaml/model.py.                    *)
(*                                                                         *)
(* Time is counted in whole milliseconds, so the 0.001 s fallback of       *)
(* LGBMEstimator.fit is one tick.  A cached time per iteration is kept as  *)
(* the exact fraction <<numerator, denominator>>; int() is truncation      *)
(* toward zero.  Floating point rounding is not modelled.                  *)
(*                                                                         *)
(* An underlying training run is opaque: it yields a model that remembers  *)
(* its iteration count, the instance whose call started it and whether it  *)
(* was trained in the most recent fit call; it takes a duration the model  *)
(* draws from RunDur.                                                      *)
(***************************************************************************)
EXTENDS Integers, Sequences, FiniteSets, TLC

\* ------------------------------------------------------------------ bounds
MaxIter == 6
MaxBudget == 6
MaxDur == 1
BaseSize == 10
MaxRows == 1
MaxC0 == 1
MaxC == 2
MaxBudgetLinear == 12
MaxLogBin == 4
MaxData == 20

\* ------------------------------------------------------- program constants
None == -1
Tol == 4
ProbeIters == 4
CatMinIter == 4
Epsilon == 1

\* ------------------------------------------------------------- estimators
Est == {"lgbm1", "lgbm2", "cat1", "cat2", "prophet1", "arima1"}

Kind(e) ==
  CASE e \in {"lgbm1", "lgbm2"} -> "lgbm"
    [] e \in {"cat1", "cat2"} -> "catboost"
    [] e = "prophet1" -> "prophet"
    [] OTHER -> "arima"

BudgetAware(e) == Kind(e) \in {"lgbm", "catboost"}

\* The cost cache of the LGBM estimators kept on their class.
Scope_ClassWide(e) ==
  CASE Kind(e) = "catboost" -> "CatBoostEstimator"
    [] Kind(e) = "lgbm" -> "LGBMEstimator"
    [] OTHER -> e

\* Where the cost cache of e lives: the instance (LGBMEstimator.__init__ sets
\* self._time_per_iter) or the class (CatBoostEstimator._time_per_iter).
Scope(e) == IF Kind(e) = "catboost" THEN "CatBoostEstimator" ELSE e

Scopes == {Scope(e) : e \in Est}

Sizes == {BaseSize, BaseSize + Tol, BaseSize + Tol + 1}

VARIABLES live, env, params, config_n, model, cache, last, mon, frame

vars == <<live, env, params, config_n, model, cache, last, mon, frame>>

\* ---------------------------------------------------------------- helpers
Min(a, b) == IF a <= b THEN a ELSE b

Max(a, b) == IF a >= b THEN a ELSE b

Abs(a) == IF a >= 0 THEN a ELSE -a

\* Python int() of the fraction a / b, b > 0: truncation toward zero.
IntTrunc(a, b) == IF a >= 0 THEN a \div b ELSE -((-a) \div b)

NoTpi == <<0, 0>>

\* Python truthiness of a cached _time_per_iter: None and 0 are falsy.
Falsy(tpi) == tpi[1] = 0

NoModel == [iters |-> 0, by |-> "none", fresh |-> FALSE]

Trained(e, n) == [iters |-> n, by |-> e, fresh |-> TRUE]

Aged(m) == [m EXCEPT !.fresh = FALSE]

NoCache == [time_per_iter |-> NoTpi, train_size |-> 0, t1 |-> None, smallmodel |-> NoModel]

Run(n, d) == [iters |-> n, dur |-> d]

\* Duration of an underlying run of k iterations: any measurement in the
\* general specification, c0 + k*c under the linear cost assumption.
RunDur(k) == IF env.noisy THEN 0..env.dmax ELSE {env.c0 + k * env.c}

\* In place of a duration: the training routine raised.
Failed == -2

\* What a training run of k iterations comes to: a duration or, where the
\* scenario has failing runs, an exception.
Outcomes(k) == RunDur(k) \cup (IF env.faulty THEN {Failed} ELSE {})

\* There is no try/except around a training run: its exception leaves fit.
Propagates(d) == d = Failed

\* The budgets the caller passes: fit(X_train, y_train, budget=None).
Budgets(e) == IF BudgetAware(e) THEN env.budgets ELSE {None}

\* ------------------------------------------------------- pure code pieces
\* The size test with ">=" for ">".
Stale_Inclusive(cch, size) ==
  Falsy(cch.time_per_iter) \/ Abs(cch.train_size - size) >= Tol

\* not _time_per_iter or abs(_train_size - X_train.shape[0]) > 4: no cached
\* estimate, or one calibrated on a training set of another size.
Stale(cch, size) ==
  Falsy(cch.time_per_iter) \/ Abs(cch.train_size - size) > Tol

\* The calibration guard without "budget is not None".
NeedsProbeLGBM_NoNoneCheck(cch, size, budget, n_iter) ==
  Stale(cch, size) /\ n_iter > 1

\* LGBMEstimator.fit: the condition that starts calibration.
NeedsProbeLGBM(cch, size, budget, n_iter) ==
  /\ Stale(cch, size)
  /\ budget # None
  /\ n_iter > 1

\* The first stop without the budget test.
StopAfterProbe1_NoBudgetTest(t1, budget, n_iter) == n_iter = 1

\* if self._t1 >= budget or n_iter == 1: return self._t1
StopAfterProbe1(t1, budget, n_iter) == t1 >= budget \/ n_iter = 1

\* The second calibration run on all requested iterations.
ProbeCount_Full(n_iter) == n_iter

\* self.params["n_estimators"] = min(n_iter, 4): the size of the second
\* calibration run.
ProbeCount(n_iter) == Min(n_iter, ProbeIters)

\* if self._t1 + self._t2 >= budget or n_iter == self.params["n_estimators"]
\* (CatBoostEstimator.fit: time.time() - start_time >= budget, the same sum).
StopAfterProbe2(elapsed, budget, n_iter, k) == elapsed >= budget \/ n_iter = k

\* LGBMEstimator.fit: the estimate from the 1-iteration run (t1) and the
\* k-iteration run (t2).
TimePerIterLGBM(t1, t2, k) ==
  IF t2 > t1 THEN <<t2 - t1, k - 1>>
  ELSE IF t1 # 0 THEN <<t1, 1>>
  ELSE <<Epsilon, 1>>

\* The solver without the "- _t1" term.
SolverIter_NoT1(n_iter, budget, elapsed, t1, tpi) ==
  Min(n_iter, IntTrunc((budget - elapsed) * tpi[2] + tpi[1], tpi[1]))

\* The solver on the size of the remaining time, its sign dropped.
SolverIter_AbsRemaining(n_iter, budget, elapsed, t1, tpi) ==
  Min(n_iter, IntTrunc(Abs(budget - elapsed - t1) * tpi[2] + tpi[1], tpi[1]))

\* The solver without the cap at n_iter.
SolverIter_NoCap(n_iter, budget, elapsed, t1, tpi) ==
  IntTrunc((budget - elapsed - t1) * tpi[2] + tpi[1], tpi[1])

\* min(n_iter, int((budget - time.time() + start_time - _t1) / _time_per_iter + 1))
\* with elapsed = time.time() - start_time and tpi = <<num, den>>, num > 0.
SolverIter(n_iter, budget, elapsed, t1, tpi) ==
  Min(n_iter, IntTrunc((budget - elapsed - t1) * tpi[2] + tpi[1], tpi[1]))

\* CatBoostEstimator.fit: the condition that starts calibration ("and budget"
\* is Python truthiness: None and 0 both fail it).
NeedsProbeCat(cch, size, budget, n_iter) ==
  /\ Stale(cch, size)
  /\ budget # None /\ budget # 0
  /\ n_iter > CatMinIter

\* The estimate with the time of the second run spread over all k iterations.
TimePerIterCat_AllIters(t1, elapsed, k) ==
  IF elapsed - t1 <= 0 THEN <<t1, 1>> ELSE <<elapsed - t1, k>>

\* CatBoostEstimator.fit: (time.time() - start_time - _t1) / (k - 1), replaced
\* by _t1 when it is <= 0.
TimePerIterCat(t1, elapsed, k) ==
  IF elapsed - t1 <= 0 THEN <<t1, 1>> ELSE <<elapsed - t1, k - 1>>

\* --------------------------------------------------- the observer of C4
\* Follows the first three fit calls of an instance while they match the
\* pattern: finite budgets, calls 1 and 2 on equal row counts, call 3 on a
\* row count more than Tol away.  stage 4: the pattern no longer applies.
MonStart == [stage |-> 0, size |-> 0, c1 |-> FALSE, c2 |-> FALSE, c3 |-> FALSE]

MonOff == [MonStart EXCEPT !.stage = 4]

MonStep(m, size, budget, probed) ==
  CASE m.stage = 0 /\ budget # None ->
         [MonStart EXCEPT !.stage = 1, !.size = size, !.c1 = probed]
    [] m.stage = 1 /\ budget # None /\ size = m.size ->
         [m EXCEPT !.stage = 2, !.c2 = probed]
    [] m.stage = 2 /\ budget # None /\ Abs(size - m.size) > Tol ->
         [m EXCEPT !.stage = 3, !.c3 = probed]
    [] OTHER -> MonOff

\* The locals of a CatBoostEstimator.fit call in progress, where the call is
\* followed statement by statement: pc is the statement it is at, now is
\* time.time() - start_time, overlap says that another call was in progress
\* at one of its steps, t1_mine that the class-level _t1 holds what this call
\* wrote, own_t1 that the solver read a _t1 this call wrote.
NoFrame ==
  [pc |-> "idle", size |-> 0, budget |-> None, n_iter |-> 0, now |-> 0,
   trained |-> FALSE, probed |-> FALSE, solved |-> FALSE, max_iter |-> 0,
   own_t1 |-> FALSE, t1_mine |-> FALSE, raised |-> FALSE, overlap |-> FALSE]

\* ------------------------------------------------------------ what a call did
NoLast ==
  [op |-> "none", e |-> "none", size |-> 0, budget |-> None, n_iter |-> 0,
   runs |-> <<>>, ret |-> 0, path |-> "none", solved |-> FALSE, max_iter |-> 0,
   at |-> 0, stale |-> FALSE, probed |-> FALSE, hit |-> FALSE, raised |-> FALSE,
   x |-> "none", out |-> <<>>]

\* The end of a fit call with n_estimators put back to the constructed value.
Finish_Restores(e, pn, mdl, cch, info) ==
  /\ params' = [params EXCEPT ![e] = config_n[e]]
  /\ model' = [x \in Est |-> IF x = e THEN mdl ELSE Aged(model[x])]
  /\ cache' = [s \in Scopes |->
                 IF s = Scope(e) THEN cch
                 ELSE [cache[s] EXCEPT !.smallmodel = Aged(@)]]
  /\ last' = info
  /\ mon' = IF env.watch
            THEN [mon EXCEPT ![e] = MonStep(@, info.size, info.budget, info.probed)]
            ELSE mon
  /\ UNCHANGED <<live, env, config_n, frame>>

\* The end of a fit call on e: params["n_estimators"] = pn, self._model = mdl,
\* the cost cache of e's scope = cch; info is what the call did.
Finish(e, pn, mdl, cch, info) ==
  /\ params' = [params EXCEPT ![e] = pn]
  /\ model' = [x \in Est |-> IF x = e THEN mdl ELSE Aged(model[x])]
  /\ cache' = [s \in Scopes |->
                 IF s = Scope(e) THEN cch
                 ELSE [cache[s] EXCEPT !.smallmodel = Aged(@)]]
  /\ last' = info
  /\ mon' = IF env.watch
            THEN [mon EXCEPT ![e] = MonStep(@, info.size, info.budget, info.probed)]
            ELSE mon
  /\ UNCHANGED <<live, env, config_n, frame>>

Info(e, size, budget, n_iter) ==
  [NoLast EXCEPT !.op = "fit", !.e = e, !.size = size, !.budget = budget,
                 !.n_iter = n_iter, !.stale = Stale(cache[Scope(e)], size)]

\* The cost cache and the stored model as a call on e finds them.
EntryCache(e) == [cache[Scope(e)] EXCEPT !.smallmodel = Aged(@)]

EntryModel(e) == Aged(model[e])

\* The exception caught and the run started once more.
Abort_Retry(e, pn, mdl, cch, info) ==
  Finish(e, pn, Trained(e, pn), cch,
         [info EXCEPT !.runs = Append(@, Run(pn, 0)), !.path = "final"])

\* An exception of a training run reaches the caller of fit: params, model
\* and cache stay as the lines before the run left them.
Abort(e, pn, mdl, cch, info) ==
  Finish(e, pn, mdl, cch, [info EXCEPT !.raised = TRUE, !.path = "error"])

\* A CatBoost object that was created and not trained.
Unfitted(e) == [iters |-> 0, by |-> e, fresh |-> TRUE]

\* ---------------------------------------------------- LGBMEstimator.fit
\* The final step with "> 1" for "> 0".
LGBMFinal_OffByOne(e, pn, mdl, cch, info, now) ==
  IF pn > 1
  THEN \E d \in RunDur(pn) :
         Finish(e, pn, Trained(e, pn), cch,
                [info EXCEPT !.runs = Append(@, Run(pn, d)), !.ret = now + d,
                             !.path = "final"])
  ELSE IF mdl = NoModel
  THEN Finish(e, pn, mdl, cch, [info EXCEPT !.raised = TRUE, !.path = "raise"])
  ELSE Finish(e, mdl.iters, mdl, cch, [info EXCEPT !.ret = now, !.path = "notrain"])

\* The final step without the write-back of the stored model's count.
LGBMFinal_KeepsCount(e, pn, mdl, cch, info, now) ==
  IF pn > 0
  THEN \E d \in Outcomes(pn) :
         IF Propagates(d)
         THEN Abort(e, pn, mdl, cch, [info EXCEPT !.runs = Append(@, Run(pn, d))])
         ELSE Finish(e, pn, Trained(e, pn), cch,
                     [info EXCEPT !.runs = Append(@, Run(pn, d)), !.ret = now + d,
                                  !.path = "final"])
  ELSE IF mdl = NoModel
  THEN Finish(e, pn, mdl, cch, [info EXCEPT !.raised = TRUE, !.path = "raise"])
  ELSE Finish(e, pn, mdl, cch, [info EXCEPT !.ret = now, !.path = "notrain"])

\* if self.params["n_estimators"] > 0: self._fit(...)
\* else: self.params["n_estimators"] = self._model.n_estimators
LGBMFinal(e, pn, mdl, cch, info, now) ==
  IF pn > 0
  THEN \E d \in Outcomes(pn) :
         IF Propagates(d)
         THEN Abort(e, pn, mdl, cch, [info EXCEPT !.runs = Append(@, Run(pn, d))])
         ELSE Finish(e, pn, Trained(e, pn), cch,
                     [info EXCEPT !.runs = Append(@, Run(pn, d)), !.ret = now + d,
                                  !.path = "final"])
  ELSE IF mdl = NoModel
  THEN Finish(e, pn, mdl, cch, [info EXCEPT !.raised = TRUE, !.path = "raise"])
  ELSE Finish(e, mdl.iters, mdl, cch, [info EXCEPT !.ret = now, !.path = "notrain"])

\* The solver step without the return of a calibrated call.
LGBMSolve_NoSkip(e, pn, mdl, cch, info, now, trained) ==
  IF info.budget # None /\ info.n_iter > 1
  THEN LET max_iter == SolverIter(info.n_iter, info.budget, now, cch.t1,
                                  cch.time_per_iter)
           i2 == [info EXCEPT !.solved = TRUE, !.max_iter = max_iter,
                              !.at = now, !.hit = ~trained]
       IN LGBMFinal(e, max_iter, mdl, cch, i2, now)
  ELSE LGBMFinal(e, pn, mdl, cch, info, now)

\* if budget is not None and n_iter > 1: max_iter = ...; a calibrated call
\* whose max_iter is within the calibration count returns here.
LGBMSolve(e, pn, mdl, cch, info, now, trained) ==
  IF info.budget # None /\ info.n_iter > 1
  THEN LET max_iter == SolverIter(info.n_iter, info.budget, now, cch.t1,
                                  cch.time_per_iter)
           i2 == [info EXCEPT !.solved = TRUE, !.max_iter = max_iter,
                              !.at = now, !.hit = ~trained]
       IN IF trained /\ max_iter <= pn
          THEN Finish(e, pn, mdl, cch, [i2 EXCEPT !.ret = now, !.path = "skip"])
          ELSE LGBMFinal(e, max_iter, mdl, cch, i2, now)
  ELSE LGBMFinal(e, pn, mdl, cch, info, now)

LGBMFit(e, size, budget) ==
  LET n_iter == params[e]
      cch == EntryCache(e)
      info == Info(e, size, budget, n_iter)
  IN IF NeedsProbeLGBM(cch, size, budget, n_iter)
     THEN \E d1 \in Outcomes(1) :
            LET m1 == Trained(e, 1)
                c1 == [cch EXCEPT !.t1 = d1]
                i1 == [info EXCEPT !.probed = TRUE, !.runs = <<Run(1, d1)>>]
            IN IF Propagates(d1)
               THEN Abort(e, 1, EntryModel(e), cch, i1)
               ELSE IF StopAfterProbe1(d1, budget, n_iter)
               THEN Finish(e, 1, m1, c1, [i1 EXCEPT !.ret = d1, !.path = "probe1"])
               ELSE \E d2 \in Outcomes(ProbeCount(n_iter)) :
                      LET k == ProbeCount(n_iter)
                          m2 == Trained(e, k)
                          c2 == [c1 EXCEPT !.time_per_iter = TimePerIterLGBM(d1, d2, k),
                                           !.train_size = size]
                          i2 == [i1 EXCEPT !.runs = Append(@, Run(k, d2))]
                          now == d1 + d2
                      IN IF Propagates(d2)
                         THEN Abort(e, k, m1, c1, i2)
                         ELSE IF StopAfterProbe2(d1 + d2, budget, n_iter, k)
                         THEN Finish(e, k, m2, c2,
                                     [i2 EXCEPT !.ret = now, !.path = "probe2"])
                         ELSE LGBMSolve(e, k, m2, c2, i2, now, TRUE)
     ELSE LGBMSolve(e, n_iter, EntryModel(e), cch, info, 0, FALSE)

\* ------------------------------------------------ CatBoostEstimator.fit
CatFinal(e, pn, mdl, cch, info, now) ==
  IF pn > 0
  THEN \E d \in Outcomes(pn) :
         IF Propagates(d)
         THEN Abort(e, pn, mdl, cch, [info EXCEPT !.runs = Append(@, Run(pn, d))])
         ELSE Finish(e, pn, Trained(e, pn), cch,
                     [info EXCEPT !.runs = Append(@, Run(pn, d)), !.ret = now + d,
                                  !.path = "final"])
  ELSE IF mdl = NoModel
  THEN Finish(e, pn, mdl, cch, [info EXCEPT !.raised = TRUE, !.path = "raise"])
  ELSE Finish(e, mdl.iters, mdl, cch, [info EXCEPT !.ret = now, !.path = "notrain"])

\* if budget and n_iter > 4: max_iter = ...; self._model = _smallmodel; ...
\* A zero _time_per_iter makes the division raise ZeroDivisionError.
CatSolve(e, pn, mdl, cch, info, now, trained) ==
  IF info.budget # None /\ info.budget # 0 /\ info.n_iter > CatMinIter
  THEN IF Falsy(cch.time_per_iter)
       THEN Finish(e, pn, mdl, cch,
                   [info EXCEPT !.raised = TRUE, !.path = "raise", !.at = now])
       ELSE LET max_iter == SolverIter(info.n_iter, info.budget, now, cch.t1,
                                       cch.time_per_iter)
                i2 == [info EXCEPT !.solved = TRUE, !.max_iter = max_iter,
                                   !.at = now, !.hit = ~trained]
            IN IF trained /\ max_iter <= pn
               THEN Finish(e, pn, cch.smallmodel, cch,
                           [i2 EXCEPT !.ret = now, !.path = "skip"])
               ELSE CatFinal(e, max_iter, cch.smallmodel, cch, i2, now)
  ELSE CatFinal(e, pn, mdl, cch, info, now)

CatFit(e, size, budget) ==
  LET n_iter == params[e]
      cch == EntryCache(e)
      info == Info(e, size, budget, n_iter)
  IN IF NeedsProbeCat(cch, size, budget, n_iter)
     THEN \E d1 \in Outcomes(1) :
            LET t1 == d1
                m1 == Trained(e, 1)
                c1 == [cch EXCEPT !.t1 = t1, !.smallmodel = m1]
                i1 == [info EXCEPT !.probed = TRUE, !.runs = <<Run(1, d1)>>]
            IN IF Propagates(d1)
               THEN Abort(e, 1, EntryModel(e),
                          [cch EXCEPT !.smallmodel = Unfitted(e)], i1)
               ELSE IF StopAfterProbe1(t1, budget, n_iter)
               THEN Finish(e, 1, m1, c1, [i1 EXCEPT !.ret = t1, !.path = "probe1"])
               ELSE \E d2 \in Outcomes(ProbeCount(n_iter)) :
                      LET k == ProbeCount(n_iter)
                          m2 == Trained(e, k)
                          now == t1 + d2
                          c2 == [c1 EXCEPT !.smallmodel = m2,
                                           !.time_per_iter = TimePerIterCat(t1, now, k),
                                           !.train_size = size]
                          i2 == [i1 EXCEPT !.runs = Append(@, Run(k, d2))]
                      IN IF Propagates(d2)
                         THEN Abort(e, k, EntryModel(e),
                                    [c1 EXCEPT !.smallmodel = Unfitted(e)], i2)
                         ELSE IF StopAfterProbe2(now, budget, n_iter, k)
                         THEN Finish(e, k, m2, c2,
                                     [i2 EXCEPT !.ret = now, !.path = "probe2"])
                         ELSE CatSolve(e, k, EntryModel(e), c2, i2, now, TRUE)
     ELSE CatSolve(e, n_iter, EntryModel(e), cch, info, 0, FALSE)

\* ------------------------- CatBoostEstimator.fit, statement by statement
\* The same fit as CatFit, with other calls free to run between two of its
\* accesses to the class-level _time_per_iter, _train_size, _t1, _smallmodel.
InProgress(x) == frame[x].pc \notin {"idle", "done"}

\* One step of the call on e, which leaves its locals as f.  The step to
\* "stop1" is the write of _t1: the value any other call wrote is gone.
Step(e, f) ==
  LET busy == \E x \in live \ {e} : InProgress(x)
  IN /\ frame' = [x \in Est |->
                    IF x = e THEN [f EXCEPT !.overlap = @ \/ busy]
                    ELSE IF x \in live /\ InProgress(x)
                    THEN [frame[x] EXCEPT !.overlap = TRUE,
                                          !.t1_mine = @ /\ f.pc # "stop1"]
                    ELSE [frame[x] EXCEPT !.t1_mine = @ /\ f.pc # "stop1"]]
     /\ UNCHANGED <<live, env, config_n, last, mon>>

\* The first calibration run that leaves the class-level _smallmodel alone.
RaceProbe1_NoSmallmodel(e) ==
  /\ frame[e].pc = "probe1"
  /\ \E d \in RunDur(1) :
       Step(e, [frame[e] EXCEPT !.pc = "t1", !.now = @ + d])
  /\ UNCHANGED <<params, model, cache>>

\* model.py:888-908: the entry and the calibration guard.
RaceEnter(e) ==
  /\ frame[e].pc = "idle"
  /\ \E size \in env.sizes, budget \in env.budgets :
       LET n_iter == params[e]
           f == [NoFrame EXCEPT !.size = size, !.budget = budget,
                                !.n_iter = n_iter]
       IN IF NeedsProbeCat(cache[Scope(e)], size, budget, n_iter)
          THEN /\ params' = [params EXCEPT ![e] = 1]
               /\ Step(e, [f EXCEPT !.pc = "probe1", !.probed = TRUE])
          ELSE /\ params' = params
               /\ Step(e, [f EXCEPT !.pc = "solve"])
  /\ UNCHANGED <<model, cache>>

\* model.py:909-914: _smallmodel = a new model, fitted with 1 iteration.
RaceProbe1(e) ==
  /\ frame[e].pc = "probe1"
  /\ \E d \in RunDur(1) :
       Step(e, [frame[e] EXCEPT !.pc = "t1", !.now = @ + d])
  /\ cache' = [cache EXCEPT ![Scope(e)].smallmodel = Trained(e, 1)]
  /\ UNCHANGED <<params, model>>

\* model.py:915: CatBoostEstimator._t1 = time.time() - start_time
RaceT1(e) ==
  /\ frame[e].pc = "t1"
  /\ cache' = [cache EXCEPT ![Scope(e)].t1 = frame[e].now]
  /\ Step(e, [frame[e] EXCEPT !.pc = "stop1", !.t1_mine = TRUE])
  /\ UNCHANGED <<params, model>>

\* model.py:916-921: the stop after the first run, on the class-level _t1 and
\* _smallmodel as they are now.
RaceStop1(e) ==
  /\ frame[e].pc = "stop1"
  /\ IF StopAfterProbe1(cache[Scope(e)].t1, frame[e].budget, frame[e].n_iter)
     THEN /\ model' = [model EXCEPT ![e] = cache[Scope(e)].smallmodel]
          /\ params' = params
          /\ Step(e, [frame[e] EXCEPT !.pc = "done"])
     ELSE /\ params' = [params EXCEPT ![e] = ProbeCount(frame[e].n_iter)]
          /\ model' = model
          /\ Step(e, [frame[e] EXCEPT !.pc = "probe2"])
  /\ UNCHANGED cache

\* model.py:922-927: _smallmodel = a new model, fitted with k iterations.
RaceProbe2(e) ==
  /\ frame[e].pc = "probe2"
  /\ \E d \in RunDur(params[e]) :
       Step(e, [frame[e] EXCEPT !.pc = "tpi", !.now = @ + d])
  /\ cache' = [cache EXCEPT ![Scope(e)].smallmodel = Trained(e, params[e])]
  /\ UNCHANGED <<params, model>>

\* model.py:928-932: the estimate, from the class-level _t1 as it is now.
RaceTpi(e) ==
  /\ frame[e].pc = "tpi"
  /\ cache' = [cache EXCEPT ![Scope(e)].time_per_iter =
                 TimePerIterCat(cache[Scope(e)].t1, frame[e].now, params[e])]
  /\ Step(e, [frame[e] EXCEPT !.pc = "size"])
  /\ UNCHANGED <<params, model>>

\* model.py:933: CatBoostEstimator._train_size = len(y_train)
RaceSize(e) ==
  /\ frame[e].pc = "size"
  /\ cache' = [cache EXCEPT ![Scope(e)].train_size = frame[e].size]
  /\ Step(e, [frame[e] EXCEPT !.pc = "stop2"])
  /\ UNCHANGED <<params, model>>

\* model.py:934-942: the stop after the second run.
RaceStop2(e) ==
  /\ frame[e].pc = "stop2"
  /\ IF StopAfterProbe2(frame[e].now, frame[e].budget, frame[e].n_iter, params[e])
     THEN /\ model' = [model EXCEPT ![e] = cache[Scope(e)].smallmodel]
          /\ Step(e, [frame[e] EXCEPT !.pc = "done"])
     ELSE /\ model' = model
          /\ Step(e, [frame[e] EXCEPT !.pc = "solve", !.trained = TRUE])
  /\ UNCHANGED <<params, cache>>

\* model.py:943-957: the solver on the class-level _t1 and _time_per_iter, and
\* self._model = CatBoostEstimator._smallmodel.
RaceSolve(e) ==
  /\ frame[e].pc = "solve"
  /\ LET f == frame[e]
         cch == cache[Scope(e)]
     IN IF f.budget # None /\ f.budget # 0 /\ f.n_iter > CatMinIter
        THEN IF Falsy(cch.time_per_iter)
             THEN /\ Step(e, [f EXCEPT !.pc = "done", !.raised = TRUE])
                  /\ UNCHANGED <<params, model>>
             ELSE LET max_iter == SolverIter(f.n_iter, f.budget, f.now, cch.t1,
                                             cch.time_per_iter)
                      f2 == [f EXCEPT !.solved = TRUE, !.max_iter = max_iter,
                                      !.own_t1 = f.t1_mine]
                  IN /\ model' = [model EXCEPT ![e] = cch.smallmodel]
                     /\ IF f.trained /\ max_iter <= params[e]
                        THEN /\ params' = params
                             /\ Step(e, [f2 EXCEPT !.pc = "done"])
                        ELSE /\ params' = [params EXCEPT ![e] = max_iter]
                             /\ Step(e, [f2 EXCEPT !.pc = "final"])
        ELSE /\ Step(e, [f EXCEPT !.pc = "final"])
             /\ UNCHANGED <<params, model>>
  /\ UNCHANGED cache

\* model.py:958-983: the definitive fit, or the count read back from the model.
RaceFinal(e) ==
  /\ frame[e].pc = "final"
  /\ IF params[e] > 0
     THEN /\ \E d \in RunDur(params[e]) :
               Step(e, [frame[e] EXCEPT !.pc = "done", !.now = @ + d])
          /\ model' = [model EXCEPT ![e] = Trained(e, params[e])]
          /\ params' = params
     ELSE IF model[e] = NoModel
     THEN /\ Step(e, [frame[e] EXCEPT !.pc = "done", !.raised = TRUE])
          /\ UNCHANGED <<params, model>>
     ELSE /\ params' = [params EXCEPT ![e] = model[e].iters]
          /\ model' = model
          /\ Step(e, [frame[e] EXCEPT !.pc = "done"])
  /\ UNCHANGED cache

\* CatBoostEstimator.init: the class-level cache is reset.
CatInit ==
  /\ \E e \in live : Kind(e) = "catboost"
  /\ cache' = [cache EXCEPT !["CatBoostEstimator"].time_per_iter = NoTpi,
                            !["CatBoostEstimator"].train_size = 0]
  /\ last' = [NoLast EXCEPT !.op = "init"]
  /\ UNCHANGED <<live, env, params, config_n, model, mon, frame>>

\* --------------------------------------- Prophet.fit, ARIMA.fit: one run
BaseFit(e, size, budget) ==
  \E d \in Outcomes(1) :
    IF Propagates(d)
    THEN Abort(e, params[e], EntryModel(e), EntryCache(e),
               [Info(e, size, budget, params[e]) EXCEPT !.runs = <<Run(1, d)>>])
    ELSE Finish(e, params[e], Trained(e, 1), EntryCache(e),
                [Info(e, size, budget, params[e]) EXCEPT
                   !.runs = <<Run(1, d)>>, !.ret = d, !.path = "final"])

Fit ==
  \E e \in live, size \in env.sizes : \E budget \in Budgets(e) :
    CASE Kind(e) = "lgbm" -> LGBMFit(e, size, budget)
      [] Kind(e) = "catboost" -> CatFit(e, size, budget)
      [] OTHER -> BaseFit(e, size, budget)

\* ---------------------------------------------------------------- predict
\* X_test is a table of n rows or, for the forecasters, an int number of steps.
Inputs(e) ==
  [kind : {"table"}, n : 0..MaxRows]
    \cup (IF BudgetAware(e) THEN {} ELSE [kind : {"steps"}, n : 1..MaxRows])

\* np.zeros for np.ones.
Ones_Zeros(n) == [i \in 1..n |-> 0]

\* np.ones(X_test.shape[0])
Ones(n) == [i \in 1..n |-> 1]

PredictEnd(e, x, out, raised) ==
  /\ last' = [NoLast EXCEPT !.op = "predict", !.e = e, !.x = x.kind,
                            !.size = x.n, !.out = out, !.raised = raised]
  /\ UNCHANGED <<live, env, params, config_n, model, cache, mon, frame>>

\* BaseEstimator.predict (inherited by the budget-aware estimators),
\* Prophet.predict and ARIMA.predict.  A fitted model's answer is opaque.
Predict ==
  \E e \in live : \E x \in Inputs(e) :
    IF Kind(e) = "prophet" /\ x.kind = "steps"
    THEN PredictEnd(e, x, <<>>, TRUE)
    ELSE IF model[e] # NoModel
    THEN \E out \in [1..x.n -> {0, 1}] : PredictEnd(e, x, out, FALSE)
    ELSE PredictEnd(e, x, Ones(x.n), FALSE)

\* ------------------------------------------------------------ predict_proba
\* The task names of BaseEstimator.__init__'s docstring.
Tasks == {"binary", "multi", "regression", "rank", "forecast"}

\* CLASSIFICATION of flaml/data.py: the classification tasks among them.
Classification == {"binary", "multi"}

\* The task an estimator was built with: Prophet and ARIMA default to
\* TS_FORECAST, the others get the task of the scenario.
Task(e) == IF Kind(e) \in {"prophet", "arima"} THEN "forecast" ELSE env.task

\* The assertion without its condition.
TaskOK_Always(task) == TRUE

\* assert self._task in CLASSIFICATION
TaskOK(task) == task \in Classification

PredictProbaEnd(e, x, out, raised) ==
  /\ last' = [NoLast EXCEPT !.op = "predict_proba", !.e = e, !.x = x.kind,
                            !.size = x.n, !.out = out, !.raised = raised]
  /\ UNCHANGED <<live, env, params, config_n, model, cache, mon, frame>>

\* BaseEstimator.predict_proba: the assertion, then self._model.predict_proba
\* with no test for a missing model (AttributeError on None).
PredictProba ==
  \E e \in live : \E x \in [kind : {"table"}, n : 0..MaxRows] :
    IF ~TaskOK(Task(e))
    THEN PredictProbaEnd(e, x, <<>>, TRUE)
    ELSE IF model[e] = NoModel
    THEN PredictProbaEnd(e, x, <<>>, TRUE)
    ELSE \E out \in [1..x.n -> {0, 1}] : PredictProbaEnd(e, x, out, FALSE)

\* ------------------------------------------------------ configuration mapper
Families ==
  {"BaseEstimator", "LGBMEstimator", "XGBoostEstimator", "XGBoostSklearnEstimator",
   "RandomForestEstimator", "LRL1Classifier", "LRL2Classifier", "CatBoostEstimator",
   "KNeighborsEstimator"}

\* The string, float and boolean values of hyperparameters, each encoded by
\* its position; "user" stands for a value the caller chose.
Names ==
  <<"user", "lossguide", "gbtree", "False", "hist", "0.0001", "saga", "l1",
    "lbfgs", "l2", "distance">>

Code(name) == CHOOSE i \in 1..Len(Names) : Names[i] = name

\* A dict is a function from its keys.
Empty == [k \in {} |-> 0]

Has(p, k) == k \in DOMAIN p

\* dict.get(k, d)
Get(p, k, d) == IF Has(p, k) THEN p[k] ELSE d

\* p[k] = v
Put(p, k, v) == [x \in (DOMAIN p) \cup {k} |-> IF x = k THEN v ELSE p[x]]

\* p.pop(k), for a key that may be absent
Drop(p, k) == [x \in (DOMAIN p) \ {k} |-> p[x]]

\* params[k] = params.get(k, v)
SetDefault(p, k, v) == Put(p, k, Get(p, k, v))

Returns(p) == [raised |-> FALSE, params |-> p]

Raises == [raised |-> TRUE, params |-> Empty]

\* BaseEstimator.config2params
BaseConfig2Params(config) == Returns(Drop(config, "resources_per_trial"))

\* The LGBM mapper without the expansion of log_max_bin.
LGBMConfig2Params_KeepsLog(config) == BaseConfig2Params(config)

\* LGBMEstimator.config2params: max_bin = (1 << log_max_bin) - 1
LGBMConfig2Params(config) ==
  LET p == BaseConfig2Params(config).params
  IN Returns(IF Has(p, "log_max_bin")
             THEN Put(Drop(p, "log_max_bin"), "max_bin", 2 ^ p["log_max_bin"] - 1)
             ELSE p)

\* XGBoostEstimator.config2params
XGBoostConfig2Params(config) ==
  LET p0 == BaseConfig2Params(config).params
      p1 == SetDefault(p0, "max_depth", 0)
      p2 == SetDefault(p1, "grow_policy", Code("lossguide"))
      p3 == SetDefault(p2, "booster", Code("gbtree"))
      p4 == SetDefault(p3, "use_label_encoder", Code("False"))
      p5 == SetDefault(p4, "tree_method", Code("hist"))
  IN Returns(IF Has(config, "n_jobs")
             THEN Put(Drop(p5, "n_jobs"), "nthread", p5["n_jobs"])
             ELSE p5)

\* XGBoostSklearnEstimator.config2params and RandomForestEstimator.config2params
\* start with super(BaseEstimator).config2params(config): the one-argument
\* super is unbound and has no such attribute, so the call raises
\* AttributeError before any key is touched.
UnboundSuperConfig2Params(config) == Raises

\* LRL1Classifier.config2params, LRL2Classifier.config2params
LRLConfig2Params(config, solver, penalty) ==
  LET p0 == BaseConfig2Params(config).params
      p1 == SetDefault(p0, "tol", Code("0.0001"))
      p2 == SetDefault(p1, "solver", Code(solver))
  IN Returns(SetDefault(p2, "penalty", Code(penalty)))

\* CatBoostEstimator.config2params
CatBoostConfig2Params(config) ==
  LET p0 == BaseConfig2Params(config).params
      p1 == SetDefault(p0, "n_estimators", 8192)
  IN Returns(IF Has(p1, "n_jobs")
             THEN Put(Drop(p1, "n_jobs"), "thread_count", p1["n_jobs"])
             ELSE p1)

\* KNeighborsEstimator.config2params
KNeighborsConfig2Params(config) ==
  Returns(SetDefault(BaseConfig2Params(config).params, "weights", Code("distance")))

\* self.config2params(config), by the class of self
Config2Params(family, config) ==
  CASE family = "LGBMEstimator" -> LGBMConfig2Params(config)
    [] family = "XGBoostEstimator" -> XGBoostConfig2Params(config)
    [] family \in {"XGBoostSklearnEstimator", "RandomForestEstimator"} ->
         UnboundSuperConfig2Params(config)
    [] family = "LRL1Classifier" -> LRLConfig2Params(config, "saga", "l1")
    [] family = "LRL2Classifier" -> LRLConfig2Params(config, "lbfgs", "l2")
    [] family = "CatBoostEstimator" -> CatBoostConfig2Params(config)
    [] family = "KNeighborsEstimator" -> KNeighborsConfig2Params(config)
    [] OTHER -> BaseConfig2Params(config)

\* The keys a family writes as defaults.
DefaultKeys ==
  {"max_depth", "grow_policy", "booster", "tree_method", "use_label_encoder",
   "tol", "solver", "penalty", "weights", "n_estimators"}

\* The keys a caller passes to a family, and the values given for them.
FamilyKeys(family) ==
  CASE family = "LGBMEstimator" ->
         {"n_estimators", "log_max_bin", "max_bin", "resources_per_trial"}
    [] family = "XGBoostEstimator" ->
         {"max_depth", "grow_policy", "booster", "tree_method", "use_label_encoder",
          "n_jobs", "resources_per_trial"}
    [] family = "XGBoostSklearnEstimator" -> {"n_estimators", "max_depth", "grow_policy"}
    [] family = "RandomForestEstimator" -> {"n_estimators", "max_leaves", "max_leaf_nodes"}
    [] family \in {"LRL1Classifier", "LRL2Classifier"} -> {"C", "tol", "solver", "penalty"}
    [] family = "CatBoostEstimator" ->
         {"n_estimators", "n_jobs", "thread_count", "resources_per_trial"}
    [] family = "KNeighborsEstimator" -> {"n_neighbors", "weights", "resources_per_trial"}
    [] OTHER -> {"p", "resources_per_trial"}

CallerVals(k) ==
  CASE k = "log_max_bin" -> 3..MaxLogBin
    [] k = "n_estimators" -> {MaxIter}
    [] OTHER -> {Code("user")}

Configs(family) ==
  UNION {{c \in [S -> UNION {CallerVals(k) : k \in S}] :
            \A k \in S : c[k] \in CallerVals(k)} :
           S \in SUBSET FamilyKeys(family)}

\* A call of config2params on a config, and on its own output.  The result
\* depends on nothing but the arguments, so the call is made once, first.
MapConfig ==
  /\ last.op = "none"
  /\ \E family \in Families : \E config \in Configs(family) :
       LET once == Config2Params(family, config)
       IN last' = [op |-> "config2params", family |-> family, config |-> config,
                   once |-> once,
                   twice |-> IF once.raised THEN once
                             ELSE Config2Params(family, once.params)]
  /\ UNCHANGED <<live, env, params, config_n, model, cache, mon, frame>>

\* __init__: params = config2params(config), then the family's own lines.
Construct ==
  /\ last.op = "none"
  /\ \E family \in Families, task \in Tasks : \E config \in Configs(family) :
       LET r == Config2Params(family, config)
           asserted == family \in {"LRL1Classifier", "LRL2Classifier"}
                         /\ ~TaskOK(task)
       IN last' = [op |-> "construct", family |-> family, task |-> task,
                   config |-> config, raised |-> r.raised \/ asserted,
                   params |-> IF r.raised \/ asserted THEN Empty
                              ELSE IF family = "LGBMEstimator"
                              THEN SetDefault(r.params, "verbose", -1)
                              ELSE r.params,
                   passed |-> Empty]
  /\ UNCHANGED <<live, env, params, config_n, model, cache, mon, frame>>

\* The keys of a budget-aware fit: n_iter = self.params["n_estimators"] is
\* read first (KeyError when absent); the fit writes no key but n_estimators
\* and hands self.params to every training run.
FitKeys ==
  /\ last.op \in {"construct", "fit_keys"} /\ ~last.raised
  /\ last.family \in {"LGBMEstimator", "CatBoostEstimator"}
  /\ IF ~Has(last.params, "n_estimators")
     THEN last' = [last EXCEPT !.op = "fit_keys", !.raised = TRUE]
     ELSE \E j \in 1..Min(last.params["n_estimators"], MaxIter) :
            last' = [last EXCEPT !.op = "fit_keys",
                                 !.params = Put(@, "n_estimators", j),
                                 !.passed = Put(last.params, "n_estimators", j)]
  /\ UNCHANGED <<live, env, params, config_n, model, cache, mon, frame>>

\* ------------------------------------------------------------- search_space
\* round(a / b) of Python 3 for positive ints: to the nearest, halves to even.
Round(a, b) ==
  LET q == a \div b
      r == a % b
  IN IF 2 * r < b THEN q
     ELSE IF 2 * r > b THEN q + 1
     ELSE IF q % 2 = 0 THEN q ELSE q + 1

\* The upper bound without the data size.
Upper_CapOnly(cap, data_size) == cap

\* upper = min(cap, int(data_size))
Upper(cap, data_size) == Min(cap, data_size)

\* The upper bound of every integer-valued domain search_space returns; the
\* families not listed here return none that depends on data_size.
SearchSpace(family, data_size) ==
  CASE family = "LGBMEstimator" ->
         [n_estimators |-> Upper(32768, data_size),
          num_leaves |-> Upper(32768, data_size),
          min_child_samples |-> 2 ^ 7 + 1,
          log_max_bin |-> 11]
    [] family \in {"XGBoostEstimator", "XGBoostSklearnEstimator"} ->
         [n_estimators |-> Upper(32768, data_size),
          max_leaves |-> Upper(32768, data_size)]
    [] family = "RandomForestEstimator" ->
         [n_estimators |-> Upper(2048, data_size),
          max_leaves |-> Upper(32768, data_size)]
    [] family = "CatBoostEstimator" ->
         [early_stopping_rounds |-> Max(Min(Round(1500000, data_size), 150), 12),
          n_estimators |-> 8192]
    [] family = "KNeighborsEstimator" ->
         [n_neighbors |-> Upper(512, data_size \div 2)]
    [] OTHER -> Empty

\* Data sizes: the small ones, and those around the caps and a rounded half.
DataSizes ==
  (1..MaxData) \cup {128, 129, 130, 511, 512, 1024, 1025, 2047, 2048, 2049,
                     32767, 32768, 32769, 40000, 120000}

SearchSpaceCall ==
  /\ last.op = "none"
  /\ \E family \in Families, data_size \in DataSizes :
       last' = [op |-> "search_space", family |-> family, data_size |-> data_size,
                space |-> SearchSpace(family, data_size)]
  /\ UNCHANGED <<live, env, params, config_n, model, cache, mon, frame>>

\* ------------------------------------------------------- the solver alone
\* The cached estimates the calibration of this model can leave.
Estimates == {<<n, d>> : n \in 1..(MaxDur + 1), d \in {1, ProbeIters - 1}}

\* The solver's expression on two budgets, everything else equal.
SolveCall ==
  /\ last.op = "none"
  /\ \E n_iter \in 2..MaxIter, b1 \in 0..MaxBudget, elapsed \in 0..MaxDur,
        t1 \in 0..(MaxDur + 1), tpi \in Estimates :
       \E b2 \in b1..MaxBudget :
         last' = [op |-> "solve", n_iter |-> n_iter, b1 |-> b1, b2 |-> b2,
                  elapsed |-> elapsed, t1 |-> t1, tpi |-> tpi,
                  m1 |-> SolverIter(n_iter, b1, elapsed, t1, tpi),
                  m2 |-> SolverIter(n_iter, b2, elapsed, t1, tpi)]
  /\ UNCHANGED <<live, env, params, config_n, model, cache, mon, frame>>

\* ------------------------------------- CatBoostEstimator.fit: the split
\* The definitive fit keeps at most this many trailing rows for evaluation.
HoldoutCap == 1000

\* The split at nine tenths of the rows, whatever their number.
TrainRows_NoCap(len) == IntTrunc(len * 9, 10)

\* n = max(int(len(y_train) * 0.9), len(y_train) - 1000); the double nearest
\* to 0.9 lies above 0.9 by less than 3e-17 of it, so int() of the product is
\* the integer part of 9 * len / 10 for every len that fits in memory.
TrainRows(len) == Max(IntTrunc(len * 9, 10), len - HoldoutCap)

\* Python slices a[lo:hi] and a[lo:] of a sequence of len items, 0 <= lo,
\* as the set of 0-based positions they take, in increasing order.
Slice(lo, hi, len) == lo..(Min(hi, len) - 1)

Lens ==
  (1..MaxData) \cup {999, 1000, 1001, 9990, 9999, 10000, 10001, 10009, 10010,
                     20000}

\* The rows the definitive CatBoost fit trains on and evaluates on, and the
\* sample weights it passes (None when the caller gave none).
SplitCall ==
  /\ last.op = "none"
  /\ \E len \in Lens, weighted \in BOOLEAN :
       LET n == TrainRows(len)
       IN last' = [op |-> "split", len |-> len, n |-> n, weighted |-> weighted,
                   X_tr |-> Slice(0, n, len),
                   eval_set |-> Slice(n, len, len),
                   sample_weight |-> IF weighted THEN Slice(0, n, len) ELSE {None},
                   restored |-> IF weighted THEN Slice(0, len, len) ELSE {None}]
  /\ UNCHANGED <<live, env, params, config_n, model, cache, mon, frame>>

\* ------------------------------------------------------------ specification
\* env is the scenario, fixed at the start: how long training runs take
\* (any measurement, or c0 + k*c), the budgets the caller passes, and whether
\* the observer of the first three calls follows.
AnyBudget == {None} \cup (0..MaxBudget)

Noisy == [noisy |-> TRUE, dmax |-> MaxDur, c0 |-> 0, c |-> 0, budgets |-> AnyBudget,
          sizes |-> Sizes,
          watch |-> FALSE, task |-> "binary", faulty |-> FALSE]

\* Construction: params = config2params(config), _model = None, no estimate.
Constructed(pop) ==
  /\ live = pop
  /\ params \in [Est -> {None} \cup (1..MaxIter)]
  /\ \A e \in Est : (params[e] = None) <=> ~(e \in pop /\ BudgetAware(e))
  /\ config_n = params
  /\ model = [e \in Est |-> NoModel]
  /\ cache = [s \in Scopes |-> NoCache]
  /\ last = NoLast
  /\ mon = [e \in Est |-> MonStart]
  /\ frame = [e \in Est |-> NoFrame]

\* One estimator of each family on its own: the families share no state.
Init ==
  /\ \E pop \in {{"lgbm1"}, {"cat1"}, {"prophet1"}, {"arima1"}} : Constructed(pop)
  /\ env = Noisy

Next == Fit \/ Predict \/ CatInit

Spec == Init /\ [][Next]_vars

\* Every run of k iterations costs c0 + k*c and bookkeeping takes no time.
InitLinear ==
  /\ Constructed({"lgbm1"})
  /\ \E c0 \in 0..MaxC0, c \in 1..MaxC :
       env = [noisy |-> FALSE, dmax |-> 0, c0 |-> c0, c |-> c,
              budgets |-> {None} \cup (0..MaxBudgetLinear), sizes |-> Sizes,
              watch |-> FALSE, task |-> "binary", faulty |-> FALSE]

SpecLinear == InitLinear /\ [][Fit]_vars

\* One LGBM estimator, its first three fit calls followed by the observer.
InitWatch ==
  /\ Constructed({"lgbm1"})
  /\ env = [Noisy EXCEPT !.watch = TRUE]

SpecWatch == InitWatch /\ [][Fit]_vars

\* One estimator built for any task, trained without a budget, asked for
\* predictions and for class probabilities.
InitTask ==
  /\ \E pop \in {{"lgbm1"}, {"cat1"}, {"prophet1"}} : Constructed(pop)
  /\ \E t \in Tasks : env = [Noisy EXCEPT !.task = t, !.budgets = {None}]

NextTask == Fit \/ Predict \/ PredictProba

SpecTask == InitTask /\ [][NextTask]_vars

\* Calls on the configuration side of an estimator: the mapper, construction
\* and the keys of the first fits.
NextConfig == MapConfig \/ Construct \/ FitKeys

SpecConfig == Constructed({}) /\ env = Noisy /\ [][NextConfig]_vars

\* Calls that depend on nothing but their arguments.
NextCalls == SearchSpaceCall \/ SolveCall \/ SplitCall

SpecCalls == Constructed({}) /\ env = Noisy /\ [][NextCalls]_vars

\* One budget-aware estimator whose training runs may raise; the scenario
\* ends with the first fit call that raises.
InitFault ==
  /\ \E pop \in {{"lgbm1"}, {"cat1"}} : Constructed(pop)
  /\ env = [Noisy EXCEPT !.faulty = TRUE]

NextFault == ~last.raised /\ Fit

SpecFault == InitFault /\ [][NextFault]_vars

\* Two CatBoost estimators built from one config of more than 4 iterations, which share the class-level
\* cost cache; the caller passes no budget, a tight one or a generous one, and
\* a run may take longer than the tight budget.
InitPair ==
  /\ Constructed({"cat1", "cat2"})
  /\ params["cat1"] = params["cat2"] /\ params["cat1"] >= MaxIter - 1
  /\ env = [Noisy EXCEPT !.budgets = {None, 1, MaxBudget}, !.dmax = MaxDur + 1,
                        !.sizes = {BaseSize, BaseSize + Tol + 1}]

NextPair == Fit \/ CatInit

SpecPair == InitPair /\ [][NextPair]_vars

\* Two CatBoost estimators of one config and the class-level reset: the caller
\* passes budget 0 or a generous one, on row counts Tol apart.
InitShared ==
  /\ Constructed({"cat1", "cat2"})
  /\ params["cat1"] = params["cat2"]
  /\ env = [Noisy EXCEPT !.budgets = {0, MaxBudget},
                        !.sizes = {BaseSize, BaseSize + Tol}]

SpecShared == InitShared /\ [][NextPair]_vars

\* Two LGBM estimators side by side, built for MaxIter - 1 or MaxIter
\* iterations, each with the cost cache its constructor gave it; the caller
\* passes a tight or a generous budget.
InitTwo ==
  /\ Constructed({"lgbm1", "lgbm2"})
  /\ params["lgbm1"] >= MaxIter - 1 /\ params["lgbm2"] >= MaxIter - 1
  /\ env = [Noisy EXCEPT !.budgets = {1, MaxBudget},
                        !.sizes = {BaseSize, BaseSize + Tol + 1}]

SpecTwo == InitTwo /\ [][Fit]_vars

\* Two CatBoost estimators, one fit call on each, the two calls interleaved in
\* every way or one after the other; budgets tight or generous.
InitRace ==
  /\ Constructed({"cat1", "cat2"})
  /\ params["cat1"] = params["cat2"] /\ params["cat1"] >= MaxIter - 1
  /\ env = [Noisy EXCEPT !.budgets = {1, MaxBudget},
                        !.sizes = {BaseSize, BaseSize + Tol + 1}]

NextRace ==
  \E e \in live :
    \/ RaceEnter(e) \/ RaceProbe1(e) \/ RaceT1(e) \/ RaceStop1(e)
    \/ RaceProbe2(e) \/ RaceTpi(e) \/ RaceSize(e) \/ RaceStop2(e)
    \/ RaceSolve(e) \/ RaceFinal(e)

SpecRace == InitRace /\ [][NextRace]_vars

\* ------------------------------------------------------------------ claims
LastFit == last.op = "fit"

Returned == LastFit /\ ~last.raised

\* The cost cache of the estimator of the last call, as the call left it.
LastCache == cache[Scope(last.e)]

\* floor(a / b) for b > 0.
Floor(a, b) == a \div b

C2_OneIterationOneFit ==
  (LastFit /\ BudgetAware(last.e) /\ last.n_iter = 1)
    => /\ ~last.raised /\ ~last.solved
       /\ Len(last.runs) = 1 /\ last.runs[1].iters = 1
       /\ model[last.e] = Trained(last.e, 1)

\* A budgeted call with n_estimators = 1 on an estimator that holds an
\* estimate, made with budget 0.
C2_Witness ==
  /\ LastFit /\ last.n_iter = 1 /\ last.budget = 0
  /\ ~Falsy(LastCache.time_per_iter)
  /\ Len(last.runs) = 1

\* C3 (as claimed): for every budget >= 0 and requested count > 1, with no
\* valid cached estimate, the call first trains 1 iteration; if that took
\* t1 >= budget it starts no further run, stores the 1-iteration model and
\* returns t1 -- for the LGBM family and for CatBoostEstimator alike.
C3_ProbeFirstThenStop ==
  (LastFit /\ BudgetAware(last.e) /\ last.budget # None /\ last.n_iter > 1
     /\ last.stale)
    => /\ Len(last.runs) >= 1 /\ last.runs[1].iters = 1
       /\ last.runs[1].dur >= last.budget
            => /\ Len(last.runs) = 1
               /\ model[last.e] = Trained(last.e, 1)
               /\ ~last.raised /\ last.ret = last.runs[1].dur

\* C4 (as claimed), for the LGBM family: of three budgeted calls on one
\* instance built with n_estimators > 1, the first two on equal row counts
\* and the third more than 4 rows away, the first calibrates, the second
\* does not, the third calibrates again.
C4_ThreeCallCacheReuse ==
  \A e \in live :
    (Kind(e) = "lgbm" /\ config_n[e] > 1)
      => /\ mon[e].stage \in 1..3 => mon[e].c1
         /\ mon[e].stage \in 2..3 => ~mon[e].c2
         /\ mon[e].stage = 3 => mon[e].c3

\* C5 (as claimed): the iteration count of the definitive fit is
\* min(requested, floor((budget - elapsed_so_far) / time_per_iteration) + 1).
C5_SolverAsClaimed ==
  (Returned /\ last.solved /\ last.path = "final")
    => last.runs[Len(last.runs)].iters =
         Min(last.n_iter,
             Floor((last.budget - last.at) * LastCache.time_per_iter[2],
                   LastCache.time_per_iter[1]) + 1)

\* C5 (amended): the solver's count is
\* min(requested, int((budget - elapsed_so_far - t1) / time_per_iteration + 1)),
\* t1 the measured or cached duration of the 1-iteration run, int() truncating
\* toward zero; a definitive fit that is started runs with exactly that count.
\* With requested 100, budget 10 s, t1 0.5 s, t2 1.7 s (elapsed 2.2 s) it is 19.
C5_SolverFormula ==
  /\ (LastFit /\ last.solved)
       => /\ last.max_iter =
               Min(last.n_iter,
                   IntTrunc((last.budget - last.at - LastCache.t1)
                               * LastCache.time_per_iter[2]
                               + LastCache.time_per_iter[1],
                            LastCache.time_per_iter[1]))
          /\ last.path = "final"
               => last.runs[Len(last.runs)].iters = last.max_iter
  /\ TimePerIterLGBM(500, 1700, 4) = <<1200, 3>>
  /\ SolverIter(100, 10000, 2200, 500, <<1200, 3>>) = 19

\* A call that calibrated and then ran a definitive fit with a count strictly
\* between the calibration count and the requested count.
C5_Witness ==
  /\ Returned /\ last.solved /\ last.probed /\ last.path = "final"
  /\ last.max_iter < last.n_iter
  /\ LastCache.t1 > 0

\* C6 (as claimed): the solver's count is at most the requested count and at
\* least 1, also on a cache hit with less budget left than the cached t1.
C6_SolverAtLeastOne ==
  (LastFit /\ last.solved) => (1 <= last.max_iter /\ last.max_iter <= last.n_iter)

\* C6 (amended): the solver's count is at most the requested count; it is at
\* least 1 exactly when budget - elapsed_so_far - t1 >= 0.  When it is <= 0 on
\* a cache hit no training run is started, and params["n_estimators"] ends as
\* the iteration count of the stored model: between 1 and the requested count.
C6_SolverBounds ==
  (LastFit /\ last.solved)
    => /\ last.max_iter <= last.n_iter
       /\ (last.max_iter >= 1) <=> (last.budget - last.at - LastCache.t1 >= 0)
       /\ (last.hit /\ last.max_iter <= 0)
            => /\ last.runs = <<>>
               /\ ~last.raised => params[last.e] = model[last.e].iters
       /\ ~last.raised => (1 <= params[last.e] /\ params[last.e] <= last.n_iter)

\* A cache hit whose budget is smaller than the cached t1: no run is started.
C6_Witness ==
  /\ Returned /\ last.solved /\ last.hit
  /\ last.budget < LastCache.t1
  /\ last.max_iter <= 0 /\ last.path = "notrain"

\* C7 (LGBM family, runs of k iterations cost c0 + k*c, bookkeeping free): a
\* budgeted fit call takes at most budget plus the duration of one calibration
\* run: of the 1-iteration run when that is the only run of the call, of the
\* min(requested, 4)-iteration run otherwise.
C7_ElapsedWithinOneCalibration ==
  (Returned /\ Kind(last.e) = "lgbm" /\ last.budget # None /\ ~env.noisy)
    => /\ last.ret <= last.budget + env.c0 + Min(last.n_iter, ProbeIters) * env.c
       /\ (Len(last.runs) <= 1 /\ last.path # "final")
            => last.ret <= last.budget + env.c0 + env.c

\* A call that stopped after its second calibration run, over budget.
C7_Witness ==
  /\ Returned /\ ~env.noisy /\ Kind(last.e) = "lgbm" /\ last.budget # None
  /\ last.path = "probe2" /\ last.ret > last.budget

\* C8 (as claimed): whenever a cost estimate is cached, time_per_iteration is
\* strictly positive, for the LGBM family and for CatBoostEstimator.
C8_EstimatePositive ==
  \A e \in live :
    cache[Scope(e)].time_per_iter # NoTpi
      => (cache[Scope(e)].time_per_iter[1] > 0 /\ cache[Scope(e)].time_per_iter[2] > 0)

\* C9 (as claimed, the part on ownership): a fit call that returns normally
\* leaves the instance holding a model trained by a run of that instance.
C9_ModelTrainedByOwner ==
  /\ ~LastFit => \A e \in live : model[e] # NoModel => model[e].by = e
  /\ Returned => model[last.e].by = last.e

C11_ProbaUnfittedFallback ==
  (last.op = "predict_proba" /\ Task(last.e) \in Classification
     /\ model[last.e] = NoModel)
    => (~last.raised /\ last.out = [i \in 1..last.size |-> 1])

\* C12: predict_proba on an estimator whose task is not a classification task
\* raises, fitted or not, and returns no value.
C12_ProbaNeedsClassification ==
  (last.op = "predict_proba" /\ Task(last.e) \in {"regression", "rank", "forecast"})
    => (last.raised /\ last.out = <<>>)

\* predict_proba on a fitted regression estimator, given one row or more.
C12_Witness ==
  /\ last.op = "predict_proba" /\ Task(last.e) = "regression"
  /\ model[last.e] # NoModel /\ last.size >= 1 /\ last.raised

\* C13 (as claimed): construction fails when the task does not fit the
\* estimator (LRL1Classifier, LRL2Classifier with a non-classification task)
\* and when a budget-aware estimator is built without n_estimators; no such
\* error is left to the first fit call.
C13_ConstructionValidates ==
  /\ (last.op = "construct" /\ last.family \in {"LRL1Classifier", "LRL2Classifier"}
        /\ last.task \notin Classification)
       => last.raised
  /\ (last.op = "construct" /\ last.family \in {"LGBMEstimator", "CatBoostEstimator"}
        /\ ~Has(last.config, "n_estimators"))
       => last.raised
  /\ last.op = "fit_keys" => ~last.raised

\* C14 (as claimed): for every family and every config the mapper applied to
\* its own output gives the mapping it gave the first time.
C14_MapperIdempotent ==
  last.op = "config2params" => (~last.once.raised /\ last.twice = last.once)

\* C15: for an LGBMEstimator built from a config with log_max_bin = v, the
\* params the estimator holds after construction and after every fit, and the
\* params every fit passes to the training routine, contain max_bin = 2^v - 1
\* and neither log_max_bin nor resources_per_trial.
C15_LogMaxBinExpanded ==
  (last.op \in {"construct", "fit_keys"} /\ last.family = "LGBMEstimator"
     /\ Has(last.config, "log_max_bin") /\ ~last.raised)
    => \A p \in {last.params} \cup (IF last.op = "fit_keys" THEN {last.passed} ELSE {}) :
         /\ Has(p, "max_bin") /\ p["max_bin"] = 2 ^ last.config["log_max_bin"] - 1
         /\ ~Has(p, "log_max_bin")
         /\ ~Has(p, "resources_per_trial")

\* A fit of an LGBMEstimator built with log_max_bin, a max_bin of the
\* caller's and resources_per_trial.
C15_Witness ==
  /\ last.op = "fit_keys" /\ ~last.raised /\ last.family = "LGBMEstimator"
  /\ {"log_max_bin", "max_bin", "resources_per_trial"} \subseteq DOMAIN last.config
  /\ last.config["log_max_bin"] = MaxLogBin
  /\ last.passed["max_bin"] = 2 ^ MaxLogBin - 1

\* C16 (as claimed): the mapper of every family returns a mapping in which a
\* key of the family defaults that the caller gave keeps the caller's value.
C16_DefaultsOnlyIfAbsent ==
  last.op = "config2params"
    => /\ ~last.once.raised
       /\ \A k \in DefaultKeys \cap DOMAIN last.config :
            Has(last.once.params, k) /\ last.once.params[k] = last.config[k]

C18_SolverMonotone ==
  last.op = "solve" => last.m1 <= last.m2

\* Two budgets, the smaller leaving negative remaining time, with different
\* counts.
C18_Witness ==
  /\ last.op = "solve"
  /\ last.b1 - last.elapsed - last.t1 < 0
  /\ last.m1 < 0 /\ last.m1 < last.m2

\* C19: when a training run raises during a fit call (first calibration run,
\* second calibration run or final run) the call raises and starts no further
\* run: the failed run is the last run of the call.
C19_TrainingErrorPropagates ==
  LastFit
    => LET failed == {i \in 1..Len(last.runs) : last.runs[i].dur = Failed}
       IN /\ failed # {} => (last.raised /\ failed = {Len(last.runs)})
          /\ Len(last.runs) <= 3

\* A call whose second calibration run raised.
C19_Witness ==
  /\ LastFit /\ last.raised /\ last.probed
  /\ Len(last.runs) = 2 /\ last.runs[2].dur = Failed /\ last.runs[1].dur # Failed

\* C20 (as claimed): whenever both calibration runs complete and the second
\* took longer than the first, the cached time per iteration is
\* (t2 - t1) / (k - 1), t1 and t2 the durations of the two runs, for the LGBM
\* family and for CatBoostEstimator.
C20_EstimateFormula ==
  (Returned /\ last.probed /\ Len(last.runs) >= 2
     /\ last.runs[2].dur > last.runs[1].dur)
    => LastCache.time_per_iter[1] * (last.runs[2].iters - 1)
         = (last.runs[2].dur - last.runs[1].dur) * LastCache.time_per_iter[2]

\* ------------------------------------------------------------------ C21
\* C21: a budgeted LGBM fit with more than one requested iteration that finds
\* a cached estimate calibrated on a row count at most Tol away starts no
\* calibration run and leaves the cached estimate and row count as they were;
\* on a row count more than Tol away it starts with the 1-iteration
\* calibration run.  The distance is taken from the calibrated row count, not
\* from the row count of the call before.
C21_CacheHitWithinTol ==
  [][ ( /\ last'.op = "fit" /\ Kind(last'.e) = "lgbm"
        /\ last'.budget # None /\ last'.n_iter > 1
        /\ ~Falsy(cache[last'.e].time_per_iter) )
      => LET old == cache[last'.e]
             new == cache'[last'.e]
         IN IF Abs(old.train_size - last'.size) <= Tol
            THEN /\ ~last'.probed
                 /\ new.time_per_iter = old.time_per_iter
                 /\ new.train_size = old.train_size
                 /\ Len(last'.runs) <= 1
            ELSE /\ last'.probed
                 /\ last'.runs[1].iters = 1 ]_vars

\* A cache hit on a row count exactly Tol away from the calibrated one.
C21_Witness ==
  /\ LastFit /\ Kind(last.e) = "lgbm" /\ last.hit /\ ~last.probed
  /\ Abs(LastCache.train_size - last.size) = Tol

\* ------------------------------------------------------------------ C22
\* C22: when the second calibration run (k = min(requested, 4) iterations) has
\* ended and the elapsed time has reached the budget or k is the requested
\* count, the call ends there: two runs, the k-iteration model stored, and
\* the cost cache already holds the new estimate and the row count of the call.
C22_StopAfterSecondProbe ==
  ( /\ LastFit /\ BudgetAware(last.e) /\ last.probed /\ ~last.raised
    /\ Len(last.runs) >= 2
    /\ \/ last.runs[1].dur + last.runs[2].dur >= last.budget
       \/ last.runs[2].iters = last.n_iter )
  => LET k == Min(last.n_iter, 4)
         t1 == last.runs[1].dur
         t2 == last.runs[2].dur
     IN /\ Len(last.runs) = 2
        /\ last.runs[2].iters = k
        /\ model[last.e] = Trained(last.e, k)
        /\ params[last.e] = k
        /\ last.ret = t1 + t2
        /\ LastCache.train_size = last.size
        /\ LastCache.t1 = t1
        /\ LastCache.time_per_iter =
             IF Kind(last.e) = "lgbm"
             THEN (IF t2 > t1 THEN <<t2 - t1, k - 1>>
                   ELSE IF t1 # 0 THEN <<t1, 1>> ELSE <<1, 1>>)
             ELSE (IF t2 <= 0 THEN <<t1, 1>> ELSE <<t2, k - 1>>)

\* A call that stopped after the second run because the budget was used up,
\* with more iterations requested than the run had.
C22_Witness ==
  /\ LastFit /\ last.path = "probe2" /\ last.n_iter > last.runs[2].iters
  /\ last.runs[1].dur + last.runs[2].dur >= last.budget
  /\ LastCache.train_size = last.size

\* ------------------------------------------------------------------ C23
\* C23: in a call that ran both calibration runs and went on to the solver, a
\* third run is started exactly when max_iter exceeds the calibration count k,
\* and it has max_iter iterations; with max_iter <= k the k-iteration model of
\* the second calibration run is the final model.  A call that ended at the
\* stop after the second run has no third run.
C23_ThirdRunIffMore ==
  ( /\ LastFit /\ BudgetAware(last.e) /\ last.probed /\ ~last.raised
    /\ Len(last.runs) >= 2 )
  => LET k == last.runs[2].iters
     IN IF last.solved
        THEN /\ (Len(last.runs) = 3) <=> (last.max_iter > k)
             /\ Len(last.runs) = 3
                  => /\ last.runs[3].iters = last.max_iter
                     /\ model[last.e] = Trained(last.e, last.max_iter)
                     /\ params[last.e] = last.max_iter
             /\ last.max_iter <= k
                  => /\ Len(last.runs) = 2
                     /\ model[last.e] = Trained(last.e, k)
                     /\ params[last.e] = k
        ELSE Len(last.runs) = 2

\* A calibrated call whose solver asked for more than the calibration count
\* and that ran the third run.
C23_Witness ==
  /\ LastFit /\ last.probed /\ last.solved /\ Len(last.runs) = 3
  /\ last.max_iter > last.runs[2].iters
  /\ last.runs[3].iters = last.max_iter

\* ------------------------------------------------------------------ C24
\* C24: on L >= 1 rows the definitive CatBoost fit trains on the first
\* n = max(floor(0.9 * L), L - 1000) rows and evaluates on the L - n rows after
\* them: the two slices are disjoint, cover all rows, every training row comes
\* before every evaluation row, the evaluation slice has at most 1000 rows and
\* at most a tenth of L rounded up, and the sample weights passed are those of
\* the same first n rows.
C24_SplitPartitionsRows ==
  last.op = "split"
  => LET L == last.len
         n == Max(Floor(9 * L, 10), L - 1000)
     IN /\ last.n = n /\ 0 <= n /\ n <= L
        /\ last.X_tr = 0..(n - 1)
        /\ last.eval_set = n..(L - 1)
        /\ last.X_tr \cap last.eval_set = {}
        /\ last.X_tr \cup last.eval_set = 0..(L - 1)
        /\ \A i \in last.X_tr : \A j \in last.eval_set : i < j
        /\ Cardinality(last.eval_set) = L - n
        /\ L - n <= 1000
        /\ 10 * (L - n) < L + 10
        /\ last.weighted => last.sample_weight = last.X_tr
        /\ last.weighted => last.restored = 0..(L - 1)

\* A training set large enough for the 1000-row cap to decide the split.
C24_Witness ==
  /\ last.op = "split" /\ last.len > 10000 /\ last.weighted
  /\ Cardinality(last.eval_set) = 1000

\* ------------------------------------------------------------------ C25
\* C25: the CatBoost cost cache belongs to the class.  A budgeted fit on an
\* instance that was never fitted, on a row count within Tol of the one another
\* instance calibrated on, starts no calibration run and solves with the
\* cached estimate and t1 of that other instance; and the first budgeted fit
\* with more than 4 requested iterations after CatBoostEstimator.init()
\* calibrates again.
C25_SharedCacheAndReset ==
  [][ LET cch == cache["CatBoostEstimator"]
          b == last'.e
      IN /\ ( /\ last'.op = "fit" /\ Kind(b) = "catboost" /\ last'.budget # None
              /\ model[b] = NoModel /\ params[b] = config_n[b]
              /\ ~Falsy(cch.time_per_iter)
              /\ cch.smallmodel.by \notin {b, "none"}
              /\ Abs(cch.train_size - last'.size) <= Tol )
            => /\ ~last'.probed
               /\ last'.solved
                    => last'.max_iter = SolverIter(last'.n_iter, last'.budget, 0,
                                                   cch.t1, cch.time_per_iter)
         /\ ( /\ last.op = "init"
              /\ last'.op = "fit" /\ Kind(b) = "catboost"
              /\ last'.budget # None /\ last'.n_iter > CatMinIter )
            => last'.probed ]_vars

\* ------------------------------------------------------------------ C26
\* C26: the cost cache of an LGBM estimator belongs to the instance.  A fit
\* call on another instance changes nothing of an instance B: not its cached
\* estimate, row count and t1, not its params, not its model; and a fit call on
\* B decides whether to calibrate, and solves for its iteration count, from
\* B's own fields and the arguments of the call alone.
C26_PerInstanceCache ==
  [][ /\ \A b \in live :
           (Kind(b) = "lgbm" /\ last'.op = "fit" /\ last'.e # b)
           => /\ cache'[Scope(b)].time_per_iter = cache[Scope(b)].time_per_iter
              /\ cache'[Scope(b)].train_size = cache[Scope(b)].train_size
              /\ cache'[Scope(b)].t1 = cache[Scope(b)].t1
              /\ params'[b] = params[b]
              /\ model'[b].iters = model[b].iters /\ model'[b].by = model[b].by
      /\ (last'.op = "fit" /\ Kind(last'.e) = "lgbm")
         => LET b == last'.e
                own == cache[Scope(b)]
            IN /\ last'.n_iter = params[b]
               /\ last'.probed <=>
                    /\ own.time_per_iter[1] = 0
                       \/ Abs(own.train_size - last'.size) > 4
                    /\ last'.budget # None /\ params[b] > 1
               /\ (last'.solved /\ ~last'.probed)
                    => last'.max_iter =
                         Min(params[b],
                             IntTrunc((last'.budget - own.t1) * own.time_per_iter[2]
                                        + own.time_per_iter[1],
                                      own.time_per_iter[1])) ]_vars

\* Both instances hold a calibrated estimate, different ones, and the last
\* call was a cache hit on one of them.
C26_Witness ==
  /\ LastFit /\ Kind(last.e) = "lgbm" /\ last.hit
  /\ ~Falsy(cache["lgbm1"].time_per_iter) /\ ~Falsy(cache["lgbm2"].time_per_iter)
  /\ cache["lgbm1"].time_per_iter # cache["lgbm2"].time_per_iter

\* ------------------------------------------------------------------ C28
\* C28: after every LGBM fit call that returns normally, on whichever path,
\* params["n_estimators"] is the number of iterations the stored model was
\* trained with, and is at least 1.
C28_ParamsMatchModel ==
  (Returned /\ Kind(last.e) = "lgbm")
  => /\ params[last.e] = model[last.e].iters
     /\ params[last.e] >= 1
     /\ last.path \in {"probe1", "probe2", "skip", "final", "notrain"}
     /\ last.path = "probe1" => params[last.e] = 1
     /\ last.path = "probe2" => params[last.e] = last.runs[2].iters
     /\ last.path = "skip" => params[last.e] = last.runs[2].iters
     /\ last.path = "final" => params[last.e] = last.runs[Len(last.runs)].iters
     /\ last.path = "notrain" => params[last.e] = last.n_iter

\* A cache-hit call whose solver left no iteration to train: the count is
\* read back from the model of an earlier call.
C28_Witness ==
  /\ Returned /\ Kind(last.e) = "lgbm" /\ last.path = "notrain"
  /\ last.max_iter <= 0 /\ params[last.e] = model[last.e].iters

\* ------------------------------------------------------------------ C29
\* C29: over the fit calls on one budget-aware instance params["n_estimators"]
\* never grows from a call to the next and never exceeds the constructed
\* value; a call that stopped after its 1-iteration calibration run leaves it
\* at 1, and every fit call that finds it at 1 trains one run of exactly 1
\* iteration without calibration, whatever its budget.
C29_CountNeverGrows ==
  [][ (last'.op = "fit" /\ BudgetAware(last'.e))
      => LET e == last'.e
         IN /\ last'.n_iter = params[e]
            /\ params'[e] <= params[e]
            /\ params'[e] <= config_n[e]
            /\ (~last'.raised /\ last'.path = "probe1") => params'[e] = 1
            /\ params[e] = 1
                 => /\ ~last'.probed /\ ~last'.solved
                    /\ last'.runs = <<Run(1, last'.runs[1].dur)>>
                    /\ params'[e] = 1
                    /\ model'[e] = Trained(e, 1) ]_vars

\* An instance built for more than one iteration whose count an earlier call
\* cut to 1, fitted without a budget: one run of 1 iteration.
C29_Witness ==
  /\ Returned /\ BudgetAware(last.e) /\ config_n[last.e] > 1
  /\ last.n_iter = 1 /\ last.budget = None
  /\ Len(last.runs) = 1 /\ last.runs[1].iters = 1 /\ params[last.e] = 1

\* ------------------------------------------------------------------ C30
\* C30: a fit call of a budget-aware estimator starts at most three training
\* runs, one after the other and each run to its end: a calibrating call runs
\* 1 iteration, then min(requested, 4), then max_iter, and may stop only
\* between runs; a call that does not calibrate starts at most one run.  The
\* call returns when the runs it started have ended, also when a run went
\* past the budget.
C30_AtMostThreeRunsInOrder ==
  (LastFit /\ BudgetAware(last.e))
  => LET r == last.runs
         Total == IF Len(r) = 0 THEN 0
                  ELSE IF Len(r) = 1 THEN r[1].dur
                  ELSE IF Len(r) = 2 THEN r[1].dur + r[2].dur
                  ELSE r[1].dur + r[2].dur + r[3].dur
     IN /\ Len(r) <= 3
        /\ ~last.raised => last.ret = Total
        /\ last.probed
             => /\ Len(r) >= 1 /\ r[1].iters = 1
                /\ Len(r) >= 2 => r[2].iters = Min(last.n_iter, 4)
                /\ Len(r) = 3 => /\ last.solved /\ r[3].iters = last.max_iter
                                 /\ last.at = r[1].dur + r[2].dur
                                 /\ r[1].dur + r[2].dur < last.budget
                /\ Len(r) >= 2 => r[1].dur < last.budget
        /\ ~last.probed
             => /\ Len(r) <= 1
                /\ Len(r) = 1
                     => r[1].iters = IF last.solved THEN last.max_iter
                                     ELSE last.n_iter

\* A calibrating call with three runs of 1, 4 and max_iter > 4 iterations
\* that returned when the third had ended.
C30_Witness ==
  /\ Returned /\ BudgetAware(last.e) /\ last.probed /\ Len(last.runs) = 3
  /\ last.runs[1].iters = 1 /\ last.runs[2].iters = 4
  /\ last.runs[3].iters = last.max_iter /\ last.max_iter > 4
  /\ last.ret = last.runs[1].dur + last.runs[2].dur + last.runs[3].dur
  /\ last.runs[3].dur > 0

\* ------------------------------------------------------------------ C27
\* C27: when the fit calls on two CatBoost instances interleave between their
\* accesses to the class-level fields, a call that calibrated can return
\* holding the calibration model the other call trained, or solve for its
\* iteration count with the other call's t1 (C27_Witness is such a state).
\* When no other call was in progress during a call that calibrated, the call
\* returns with a model of its own training and solves with its own t1.
C27_SerialCallsKeepOwn ==
  \A e \in live :
    ( /\ frame[e].pc = "done" /\ ~frame[e].raised
      /\ frame[e].probed /\ ~frame[e].overlap )
    => /\ model[e].by = e
       /\ frame[e].solved => frame[e].own_t1

\* A call that calibrated, overlapped with the other instance's call, and
\* returned holding the calibration model that the other call trained.
C27_Witness ==
  \E e \in live :
    /\ frame[e].pc = "done" /\ ~frame[e].raised /\ frame[e].probed
    /\ frame[e].overlap
    /\ model[e].by # e /\ model[e].iters \in {1, ProbeIters}

TypeOK ==
  /\ \A e \in Est : params[e] \in {None} \cup (1..MaxIter)
  /\ \A e \in Est : model[e].iters \in 0..MaxIter

====
